---- MODULE Spec2Model ----
(***************************************************************************)
(* Model of the two entry points of the repository:                        *)
(*   qr_scanner.py  - QRScanner.run, the screen-polling scan mode          *)
(*   xhs404Url.py   - XhsUrlProcessor, interactive and file batch modes    *)
(* Text is modelled as a sequence of one-character strings, so that the    *)
(* regular expressions of the source are computed, not assumed.            *)
(***************************************************************************)
EXTENDS Naturals, Integers, Sequences, FiniteSets, TLC

\* ------------------------------------------------------------------ bounds
MaxAttempts == 3      \* largest max_attempts argument explored in scan mode
MaxUrls == 2          \* largest number of input lines explored in batch mode
MaxExtra == 1         \* tokens are explored up to IdLen + MaxExtra characters

\* ------------------------------------------------------- program constants
IdLen == 24           \* {24} of the pattern /explore/([a-f0-9]{24})

\* ------------------------------------------------------------ text helpers
UpperChars == <<"A","B","C","D","E","F","G","H","I","J","K","L","M","N","O","P","Q","R","S","T","U","V","W","X","Y","Z">>
LowerChars == <<"a","b","c","d","e","f","g","h","i","j","k","l","m","n","o","p","q","r","s","t","u","v","w","x","y","z">>
HexChars == <<"0","1","2","3","4","5","6","7","8","9","a","b","c","d","e","f">>
Whitespace == {" ", "\t", "\n", "\r"}

Range(s) == {s[k] : k \in 1..Len(s)}

\* re.IGNORECASE on ASCII letters: both sides are compared lower-cased
Lower(c) ==
  IF \E k \in 1..Len(UpperChars) : UpperChars[k] = c
  THEN LowerChars[CHOOSE k \in 1..Len(UpperChars) : UpperChars[k] = c]
  ELSE c

\* the literal lit occurs in s at position p (1-based), case-sensitively
OccursAt(s, p, lit) ==
  /\ p >= 1
  /\ p + Len(lit) - 1 <= Len(s)
  /\ \A k \in 1..Len(lit) : s[p + k - 1] = lit[k]

\* the same under re.IGNORECASE
OccursAtCI(s, p, lit) ==
  /\ p >= 1
  /\ p + Len(lit) - 1 <= Len(s)
  /\ \A k \in 1..Len(lit) : Lower(s[p + k - 1]) = Lower(lit[k])

\* "." of a Python pattern matches every character but a newline
IsDot(c) == c # "\n"

\* str.strip(): leading and trailing whitespace removed
RECURSIVE LStrip(_)
LStrip(s) == IF s # <<>> /\ Head(s) \in Whitespace THEN LStrip(Tail(s)) ELSE s
RECURSIVE RStrip(_)
RStrip(s) ==
  IF s # <<>> /\ s[Len(s)] \in Whitespace THEN RStrip(SubSeq(s, 1, Len(s) - 1)) ELSE s
Strip(s) == RStrip(LStrip(s))

\* ------------------------------------------------------------ literals
AppScheme == <<"x","h","s","d","i","s","c","o","v","e","r",":","/","/">>
HttpScheme == <<"h","t","t","p",":","/","/">>
HttpsScheme == <<"h","t","t","p","s",":","/","/">>
XhsHost == <<"x","i","a","o","h","o","n","g","s","h","u",".","c","o","m">>
LinkHost == <<"x","h","s","l","i","n","k",".","c","o","m">>
ExploreSeg == <<"/","e","x","p","l","o","r","e","/">>
ItemPrefix == <<"x","h","s","d","i","s","c","o","v","e","r",":","/","/","i","t","e","m","/">>
SourceTag == <<"?","s","o","u","r","c","e","=","p","c","w","e","b","_","a","c","c","e","s","s","_","l","i","m","i","t">>

\* ------------------------------------------------- QRScanner.validate_xhs_url
\* r'^xhsdiscover://.*' with re.match and re.IGNORECASE
MatchesAppPatternCaseSensitive(url) == OccursAt(url, 1, AppScheme)
MatchesAppPattern(url) == OccursAtCI(url, 1, AppScheme)

\* r'^https?://.*<host>.*' with re.match and re.IGNORECASE: the scheme at the
\* start, then the host anywhere later on the same line
MatchesWebPattern(url, host) ==
  \E scheme \in {HttpScheme, HttpsScheme} :
    /\ OccursAtCI(url, 1, scheme)
    /\ \E q \in (Len(scheme) + 1)..Len(url) :
         /\ OccursAtCI(url, q, host)
         /\ \A k \in (Len(scheme) + 1)..(q - 1) : IsDot(url[k])

validate_xhs_url(url) ==
  \/ MatchesAppPattern(url)
  \/ MatchesWebPattern(url, XhsHost)
  \/ MatchesWebPattern(url, LinkHost)

\* the three classes the patterns induce (first pattern first, as the loop)
Classify(url) ==
  IF MatchesAppPattern(url) THEN "AppUri"
  ELSE IF MatchesWebPattern(url, XhsHost) \/ MatchesWebPattern(url, LinkHost)
       THEN "WebUrl"
       ELSE "Unrecognized"

\* ------------------------------------------ XhsUrlProcessor.extract_id_from_url
None == <<>>          \* the failed extraction; "if not item_id" tests falsity

IsIdChar(c) == c \in Range(HexChars)

\* positions where r'/explore/([a-f0-9]{24})' matches
MatchStarts(url) ==
  {p \in 1..Len(url) :
     /\ OccursAt(url, p, ExploreSeg)
     /\ p + Len(ExploreSeg) + IdLen - 1 <= Len(url)
     /\ \A k \in 0..(IdLen - 1) : IsIdChar(url[p + Len(ExploreSeg) + k])}

\* re.search returns the leftmost match; group(1) is the IdLen characters
extract_id_from_url(url) ==
  IF MatchStarts(url) = {} THEN None
  ELSE LET p == CHOOSE m \in MatchStarts(url) : \A n \in MatchStarts(url) : m <= n
       IN  SubSeq(url, p + Len(ExploreSeg), p + Len(ExploreSeg) + IdLen - 1)

\* ------------------------------------------ XhsUrlProcessor.convert_to_app_url
convert_to_app_urlNoTag(item_id) == ItemPrefix \o item_id
convert_to_app_url(item_id) == ItemPrefix \o item_id \o SourceTag

\* ------------------------------------------------------------ sample inputs
ExampleId == <<"6","5","2","b","9","1","f","0","0","0","0","0","0","0","0","0","1","f","0","3","b","5","7","0">>
WebHead == <<"h","t","t","p","s",":","/","/","w","w","w",".","x","i","a","o","h","o","n","g","s","h","u",".","c","o","m">>
QueryTail == <<"?","x","s","e","c","_","t","o","k","e","n","=","a","b","c">>
WebExample == WebHead \o ExploreSeg \o ExampleId \o QueryTail
WebLongToken == WebHead \o ExploreSeg \o ExampleId \o <<"a">> \o QueryTail
WebUser == <<"h","t","t","p","s",":","/","/","w","w","w",".","x","i","a","o","h","o","n","g","s","h","u",".","c","o","m","/","u","s","e","r","/","p","r","o","f","i","l","e","/","a","b","c">>
AppUriExample == <<"x","h","s","d","i","s","c","o","v","e","r",":","/","/","i","t","e","m","/","a","b","c","1","2","3","?","s","o","u","r","c","e","=","x">>
AppUriUpper == <<"X","H","S","D","i","s","c","o","v","e","r",":","/","/","i","t","e","m","/","a","b","c","1","2","3">>
ShortLink == <<"h","t","t","p",":","/","/","x","h","s","l","i","n","k",".","c","o","m","/","a","/","A","b","C","d">>
OtherUrl == <<"h","t","t","p","s",":","/","/","e","x","a","m","p","l","e",".","c","o","m","/","o","t","h","e","r">>
BlankLine == <<" ">>

\* texts a decoded QR code may carry (the empty text included)
QrPayloads == {AppUriExample, AppUriUpper, WebExample, ShortLink, OtherUrl, <<>>}
\* lines an operator may type or a file may hold
InputLines == {WebExample, WebLongToken, WebUser, AppUriExample}

\* ------------------------------------------------------------ device bridge
\* what one subprocess.run of the bridge can do: exit 0, exit non-zero,
\* TimeoutExpired, FileNotFoundError (no adb executable), any other exception
BridgeOutcomes == {"ok", "nonzero", "timeout", "not_found", "error"}
\* 'adb devices': exit 0 with or without a device line, or one of the failures
DevicesOutcomes == {"devices", "no_devices", "nonzero", "timeout", "not_found"}

\* the boolean each wrapper returns for an outcome
execute_adb_commandTimeoutOk(out) == out \in {"ok", "timeout"}
execute_adb_command(out) == out = "ok"
click_coordinate(out) == out = "ok"
check_adb_connectionAnyExit0(out) == out \in {"devices", "no_devices"}
check_adb_connection(out) == out = "devices"

\* ------------------------------------------------------------------- state
VARIABLES
  mode,           \* "scan" | "input" | "file" | "extract": the entry point
  pc,             \* position in the running function
  max_attempts,   \* QRScanner.run argument
  attempt,        \* loop variable of QRScanner.run (0 before the loop)
  urls,           \* the batch list
  i,              \* loop variable of the batch loops (0 before the loop)
  url,            \* qr_content / the url of the current item
  item_id,        \* result of the last extraction
  app_url,        \* the uri handed to execute_adb_command
  success_count,  \* the batch counter
  result,         \* "pending", then the return value: "True" | "False" | "None"
  summary,        \* the final batch summary line has been printed
  abort,          \* how the operator ended the batch early: "no" | "q" | "interrupt" | "eof"
  log,            \* device-bridge commands issued so far, in order
  extracted,      \* texts handed to extract_id_from_url so far, in order
  soft,           \* scan mode: the soft failure of each finished attempt
  sleeps          \* inter-attempt / inter-item sleeps taken so far

vars == <<mode, pc, max_attempts, attempt, urls, i, url, item_id, app_url,
          success_count, result, summary, abort, log, extracted, soft, sleeps>>

Issue(cmd, uri, out, n) == Append(log, [cmd |-> cmd, uri |-> uri, out |-> out, n |-> n])

InitCommon ==
  /\ attempt = 0
  /\ urls = <<>>
  /\ i = 0
  /\ item_id = None
  /\ app_url = <<>>
  /\ success_count = 0
  /\ result = "pending"
  /\ summary = FALSE
  /\ abort = "no"
  /\ log = <<>>
  /\ extracted = <<>>
  /\ soft = <<>>
  /\ sleeps = 0

Init ==
  /\ InitCommon
  /\ url = <<>>
  /\ \/ mode = "scan" /\ pc = "check" /\ max_attempts \in 0..MaxAttempts
     \/ mode = "input" /\ pc = "check" /\ max_attempts = 0
     \/ mode = "file" /\ pc = "read" /\ max_attempts = 0

\* ========================================================= QRScanner.run
\* line 237, for attempt in range(1, max_attempts + 1): another pass follows
\* k finished passes exactly when k < n
HasNextAttemptOffByOne(k, n) == k <= n
HasNextAttempt(k, n) == k < n

\* line 271: the sleep is taken unless this was the last attempt
ShouldSleepAlways(k, n) == TRUE
ShouldSleep(k, n) == k < n

\* lines 252-262: where run goes after execute_adb_command returned ok
AfterScanDispatchRetry(ok) ==
  IF ok THEN [pc |-> "tap", result |-> "pending"]
        ELSE [pc |-> "retry", result |-> "pending"]
AfterScanDispatchHang(ok) ==
  IF ok THEN [pc |-> "tap", result |-> "pending"]
        ELSE [pc |-> "dispatch_blocked", result |-> "pending"]
AfterScanDispatchTrue(ok) ==
  IF ok THEN [pc |-> "tap", result |-> "pending"]
        ELSE [pc |-> "done", result |-> "True"]
AfterScanDispatch(ok) ==
  IF ok THEN [pc |-> "tap", result |-> "pending"]
        ELSE [pc |-> "done", result |-> "False"]

\* lines 254-259: what run returns after click_coordinate returned clicked
\* lines 237 and 271-273: after the sleep the loop goes back to its head,
\* the capture; the connectivity check of line 225 is outside the loop
LoopHeadRecheck == "check"
LoopHead == "scan"

AfterScanTapStrict(clicked) == IF clicked THEN "True" ELSE "False"
AfterScanTap(clicked) == IF clicked THEN "True" ELSE "True"

\* lines 224-230: one connectivity check, before the loop
ScanCheck ==
  /\ mode = "scan" /\ pc = "check"
  /\ \E out \in DevicesOutcomes :
       /\ log' = Issue("devices", <<>>, out, 0)
       /\ IF check_adb_connection(out)
          THEN pc' = "scan" /\ result' = result
          ELSE pc' = "done" /\ result' = "False"
  /\ UNCHANGED <<mode, max_attempts, attempt, urls, i, url, item_id, app_url,
                 success_count, summary, abort, extracted, soft, sleeps>>

\* lines 237-269: one pass of the loop body up to the dispatch, or to the
\* soft failure. cap is the capture + decode outcome: an exception, no code,
\* or a decoded text
ScanAttempt ==
  /\ mode = "scan" /\ pc = "scan"
  /\ HasNextAttempt(attempt, max_attempts)
  /\ attempt' = attempt + 1
  /\ \E cap \in {"error", "none", "text"} :
       \/ /\ cap = "error"
          /\ soft' = Append(soft, "error")
          /\ pc' = "retry"
          /\ UNCHANGED <<url, app_url>>
       \/ /\ cap = "none"
          /\ soft' = Append(soft, "no_qr")
          /\ pc' = "retry"
          /\ UNCHANGED <<url, app_url>>
       \/ /\ cap = "text"
          /\ \E qr_content \in QrPayloads :
               /\ url' = qr_content
               /\ IF qr_content = <<>>
                  THEN soft' = Append(soft, "no_qr") /\ pc' = "retry" /\ app_url' = app_url
                  ELSE IF validate_xhs_url(qr_content)
                       THEN soft' = soft /\ pc' = "dispatch" /\ app_url' = qr_content
                       ELSE soft' = Append(soft, "unrecognized") /\ pc' = "retry"
                            /\ app_url' = app_url
  /\ UNCHANGED <<mode, max_attempts, urls, i, item_id, success_count, result,
                 summary, abort, log, extracted, sleeps>>

\* lines 252, 260-262: execute_adb_command(qr_content)
ScanDispatch ==
  /\ mode = "scan" /\ pc = "dispatch"
  /\ \E out \in BridgeOutcomes :
       /\ log' = Issue("start", app_url, out, attempt)
       /\ pc' = AfterScanDispatch(execute_adb_command(out)).pc
       /\ result' = AfterScanDispatch(execute_adb_command(out)).result
  /\ UNCHANGED <<mode, max_attempts, attempt, urls, i, url, item_id, app_url,
                 success_count, summary, abort, extracted, soft, sleeps>>

\* lines 254-259: click_coordinate(800, 2210); both branches return True
ScanTap ==
  /\ mode = "scan" /\ pc = "tap"
  /\ \E out \in BridgeOutcomes :
       /\ log' = Issue("tap", <<>>, out, attempt)
       /\ result' = AfterScanTap(click_coordinate(out))
  /\ pc' = "done"
  /\ UNCHANGED <<mode, max_attempts, attempt, urls, i, url, item_id, app_url,
                 success_count, summary, abort, extracted, soft, sleeps>>

\* lines 271-273: the sleep between attempts, skipped after the last one
ScanRetry ==
  /\ mode = "scan" /\ pc = "retry"
  /\ sleeps' = IF ShouldSleep(attempt, max_attempts) THEN sleeps + 1 ELSE sleeps
  /\ pc' = LoopHead
  /\ UNCHANGED <<mode, max_attempts, attempt, urls, i, url, item_id, app_url,
                 success_count, result, summary, abort, log, extracted, soft>>

\* lines 275-276: the loop has run out
ScanGiveUp ==
  /\ mode = "scan" /\ pc = "scan"
  /\ ~HasNextAttempt(attempt, max_attempts)
  /\ result' = "False"
  /\ pc' = "done"
  /\ UNCHANGED <<mode, max_attempts, attempt, urls, i, url, item_id, app_url,
                 success_count, summary, abort, log, extracted, soft, sleeps>>

ScanNext ==
  ScanCheck \/ ScanAttempt \/ ScanDispatch \/ ScanTap \/ ScanRetry \/ ScanGiveUp

\* ==================================================== XhsUrlProcessor
\* sequences of at most n elements of S
SeqUpTo(S, n) == UNION {[1..k -> S] : k \in 0..n}

\* [line.strip() for line in f if line.strip()]
RECURSIVE NonBlankStripped(_)
NonBlankStripped(lines) ==
  IF lines = <<>> THEN <<>>
  ELSE IF Strip(Head(lines)) # <<>>
       THEN <<Strip(Head(lines))>> \o NonBlankStripped(Tail(lines))
       ELSE NonBlankStripped(Tail(lines))

\* process_urls_from_file, lines 274-282 and 301-304: the file is read first;
\* a missing or unreadable file and an empty list end the call
FileRead ==
  /\ mode = "file" /\ pc = "read"
  /\ \/ /\ urls' = urls
        /\ pc' = "done" /\ result' = "None"
     \/ \E lines \in SeqUpTo(InputLines \cup {BlankLine}, MaxUrls) :
          /\ urls' = NonBlankStripped(lines)
          /\ IF urls' = <<>>
             THEN pc' = "done" /\ result' = "None"
             ELSE pc' = "check" /\ result' = result
  /\ UNCHANGED <<mode, max_attempts, attempt, i, url, item_id, app_url,
                 success_count, summary, abort, log, extracted, soft, sleeps>>

\* lines 226-228 and 284-286: one connectivity check, before the loop
BatchCheck ==
  /\ mode \in {"input", "file"} /\ pc = "check"
  /\ \E out \in DevicesOutcomes :
       /\ log' = Issue("devices", <<>>, out, 0)
       /\ IF check_adb_connection(out)
          THEN pc' = (IF mode = "input" THEN "collect" ELSE "item") /\ result' = result
          ELSE pc' = "done" /\ result' = "None"
  /\ UNCHANGED <<mode, max_attempts, attempt, urls, i, url, item_id, app_url,
                 success_count, summary, abort, extracted, soft, sleeps>>

\* process_urls_from_input, lines 231-245: one input() of the collecting loop.
\* typed is a non-blank line, a blank line, end of input or Ctrl-C
InputCollect ==
  /\ mode = "input" /\ pc = "collect"
  /\ \E typed \in {"line", "blank", "eof", "interrupt"} :
       \/ /\ typed = "line"
          /\ Len(urls) < MaxUrls
          /\ \E line \in InputLines : urls' = Append(urls, Strip(line))
          /\ UNCHANGED <<pc, result, abort>>
       \/ /\ typed \in {"blank", "eof"}
          /\ IF urls = <<>>
             THEN pc' = "done" /\ result' = "None"
             ELSE pc' = "item" /\ result' = result
          /\ UNCHANGED <<urls, abort>>
       \/ /\ typed = "interrupt"
          /\ pc' = "done" /\ result' = "None" /\ abort' = "interrupt"
          /\ urls' = urls
  /\ UNCHANGED <<mode, max_attempts, attempt, i, url, item_id, app_url,
                 success_count, summary, log, extracted, soft, sleeps>>

\* process_single_url lines 119-128: the step after execute_adb_command
\* returned ok; "next" is the return to the batch loop with False
AfterItemDispatchBreak(ok) == IF ok THEN "tap" ELSE "done"
AfterItemDispatchRedo(ok) == IF ok THEN "tap" ELSE "dispatch"
AfterItemDispatchAlwaysTap(ok) == "tap"
AfterItemDispatch(ok) == IF ok THEN "tap" ELSE "next"

\* process_single_url lines 121-126: the value returned after the tap
AfterItemTapStrict(clicked) == clicked
AfterItemTap(clicked) == IF clicked THEN TRUE ELSE TRUE

\* lines 250 and 289, for i, url in enumerate(urls, 1): the k-th url
ItemAtReversed(us, k) == us[Len(us) + 1 - k]
ItemAt(us, k) == us[k]

\* lines 259-264: the answers that leave the loop: q (any letter case, the
\* answer is lower-cased) and Ctrl-C
PromptStopsOnlyInterrupt(answer) == answer = "interrupt"
PromptStops(answer) == answer \in {"q", "interrupt"}

\* the loop head and process_single_url lines 105-116: the next url is taken,
\* its id extracted and the deep link built; no id ends the item as False
BatchItem ==
  /\ mode \in {"input", "file"} /\ pc = "item"
  /\ i < Len(urls)
  /\ i' = i + 1
  /\ url' = ItemAt(urls, i + 1)
  /\ extracted' = Append(extracted, Strip(url'))
  /\ item_id' = extract_id_from_url(Strip(url'))
  /\ IF item_id' = None
     THEN pc' = "next" /\ app_url' = app_url
     ELSE pc' = "dispatch" /\ app_url' = convert_to_app_url(item_id')
  /\ UNCHANGED <<mode, max_attempts, attempt, urls, success_count, result,
                 summary, abort, log, soft, sleeps>>

\* process_single_url lines 119, 127-128: execute_adb_command(app_url)
BatchDispatch ==
  /\ mode \in {"input", "file"} /\ pc = "dispatch"
  /\ \E out \in BridgeOutcomes :
       /\ log' = Issue("start", app_url, out, i)
       /\ pc' = AfterItemDispatch(execute_adb_command(out))
  /\ UNCHANGED <<mode, max_attempts, attempt, urls, i, url, item_id, app_url,
                 success_count, result, summary, abort, extracted, soft, sleeps>>

\* process_single_url lines 121-126 and the caller's lines 253-254 / 292-293:
\* click_coordinate(865, 2690); both branches return True, which is counted
BatchTap ==
  /\ mode \in {"input", "file"} /\ pc = "tap"
  /\ \E out \in BridgeOutcomes :
       /\ log' = Issue("tap", <<>>, out, i)
       /\ success_count' = IF AfterItemTap(click_coordinate(out))
                          THEN success_count + 1 ELSE success_count
  /\ pc' = "next"
  /\ UNCHANGED <<mode, max_attempts, attempt, urls, i, url, item_id, app_url,
                 result, summary, abort, extracted, soft, sleeps>>

\* process_urls_from_input lines 256-266: the continue prompt between items,
\* then the summary. answer is Enter (or any text but q), q, Ctrl-C or end of
\* input; EOFError is not caught and leaves the function
InputPrompt ==
  /\ mode = "input" /\ pc = "next"
  /\ IF i < Len(urls)
     THEN \E answer \in {"enter", "q", "interrupt", "eof"} :
            /\ abort' = (IF answer = "enter" THEN abort ELSE answer)
            /\ IF answer = "eof"
               THEN pc' = "raised" /\ UNCHANGED <<result, summary>>
               ELSE IF PromptStops(answer)
                    THEN pc' = "done" /\ result' = "None" /\ summary' = TRUE
                    ELSE pc' = "item" /\ UNCHANGED <<result, summary>>
     ELSE /\ pc' = "done" /\ result' = "None" /\ summary' = TRUE
          /\ abort' = abort
  /\ UNCHANGED <<mode, max_attempts, attempt, urls, i, url, item_id, app_url,
                 success_count, log, extracted, soft, sleeps>>

\* process_urls_from_file lines 295-299: the one-second pause between items,
\* then the summary
FilePause ==
  /\ mode = "file" /\ pc = "next"
  /\ IF i < Len(urls)
     THEN /\ sleeps' = sleeps + 1
          /\ pc' = "item"
          /\ UNCHANGED <<result, summary>>
     ELSE /\ pc' = "done" /\ result' = "None" /\ summary' = TRUE
          /\ sleeps' = sleeps
  /\ UNCHANGED <<mode, max_attempts, attempt, urls, i, url, item_id, app_url,
                 success_count, abort, log, extracted, soft>>

BatchNext ==
  \/ FileRead \/ BatchCheck \/ InputCollect \/ BatchItem
  \/ BatchDispatch \/ BatchTap \/ InputPrompt \/ FilePause

Next == ScanNext \/ BatchNext

Spec == Init /\ [][Next]_vars

\* the program is one sequential thread: whenever a step is possible (the
\* external call it waits for returns, the operator answers) it is taken
FairSpec == Spec /\ WF_vars(Next)

\* ======================================= the pure functions on their own
\* tokens of n characters: all hex, or with one character replaced by an
\* upper-case hex letter or by a letter that is no hex digit
HexFill(n) == [k \in 1..n |-> HexChars[((k * 7) % Len(HexChars)) + 1]]
Tokens(n) ==
  {HexFill(n)} \cup
  {[HexFill(n) EXCEPT ![q] = c] : q \in {1, n} \cap (1..n), c \in {"A", "g"}}

Heads == {<<>>, WebHead, AppScheme \o <<"w","e","b">>}
Segments == {ExploreSeg,
             <<"/","E","x","p","l","o","r","e","/">>,
             <<"/","e","x","p","l","o","r","e">>,
             <<"/","i","t","e","m","/">>}
Tails == {<<>>, QueryTail, <<"/","n","o","t","e">>}

ExtractInputs ==
  {h \o g \o t \o q :
     h \in Heads, g \in Segments,
     t \in UNION {Tokens(n) : n \in (IdLen - MaxExtra)..(IdLen + MaxExtra)},
     q \in Tails}

InitExtract ==
  /\ InitCommon
  /\ mode = "extract" /\ pc = "extract" /\ max_attempts = 0
  /\ url \in ExtractInputs

\* one call of extract_id_from_url(url)
ExtractCall ==
  /\ mode = "extract" /\ pc = "extract"
  /\ extracted' = Append(extracted, url)
  /\ item_id' = extract_id_from_url(url)
  /\ pc' = IF item_id' = None THEN "done" ELSE "convert"
  /\ UNCHANGED <<mode, max_attempts, attempt, urls, i, url, app_url,
                 success_count, result, summary, abort, log, soft, sleeps>>

\* one call of convert_to_app_url(item_id)
ConvertCall ==
  /\ mode = "extract" /\ pc = "convert"
  /\ app_url' = convert_to_app_url(item_id)
  /\ pc' = "done"
  /\ UNCHANGED <<mode, max_attempts, attempt, urls, i, url, item_id,
                 success_count, result, summary, abort, log, extracted, soft, sleeps>>

NextExtract == ExtractCall \/ ConvertCall

SpecExtract == InitExtract /\ [][NextExtract]_vars

\* ================================================================ claims
Batch == mode \in {"input", "file"}
Starts == {k \in 1..Len(log) : log[k].cmd = "start"}
Taps == {k \in 1..Len(log) : log[k].cmd = "tap"}
FailedStarts == {k \in Starts : log[k].out # "ok"}
\* the connectivity check has been made and did not report a device
NotConnected == log # <<>> /\ log[1].cmd = "devices" /\ log[1].out # "devices"

\* C1: in scan mode the number of attempts started (capture + decode passes)
\* never exceeds max_attempts, whatever the capture, decode and bridge
\* outcomes are; every finished soft failure belongs to one of those attempts.
C1_AttemptsBounded ==
  mode = "scan" => /\ attempt <= max_attempts
                   /\ Len(soft) <= attempt

\* a run that used every one of its attempts, the last one reaching dispatch
C1_Witness ==
  /\ mode = "scan" /\ max_attempts >= 2 /\ attempt = max_attempts
  /\ Len(soft) = max_attempts - 1 /\ Starts # {}

\* C2: when the connectivity check does not report a device (no device
\* line, or the list-devices command failed), the run is over at once: no
\* attempt or item is started, nothing is extracted, and the check is the
\* only device-bridge command of the run. Scan, interactive and file mode.
C2_NoDeviceAborts ==
  NotConnected =>
    /\ pc = "done"
    /\ attempt = 0 /\ i = 0
    /\ extracted = <<>> /\ soft = <<>>
    /\ Len(log) = 1
    /\ result = (IF mode = "scan" THEN "False" ELSE "None")

\* a file batch with inputs waiting whose check found no device
C2_Witness ==
  /\ mode = "file" /\ urls # <<>> /\ pc = "done"
  /\ NotConnected /\ log[1].out = "no_devices"

C2_WitnessScan ==
  /\ mode = "scan" /\ max_attempts > 0 /\ pc = "done"
  /\ NotConnected /\ log[1].out = "not_found"

C2_WitnessInput == mode = "input" /\ pc = "done" /\ NotConnected

\* C3: a tap is only ever issued after a successful dispatch, and whatever
\* the tap does the attempt counts as a success: in scan mode run returns
\* True, in batch mode the item is counted in success_count.
C3_TapFailureStillSuccess ==
  /\ (mode = "scan" /\ Taps # {}) => (pc = "done" /\ result = "True")
  /\ Batch => success_count = Cardinality(Taps)

\* a scan whose dispatch succeeded and whose tap timed out
C3_Witness ==
  /\ mode = "scan" /\ pc = "done"
  /\ \E k \in Taps : log[k].out = "timeout" /\ log[k - 1].cmd = "start"
                     /\ log[k - 1].out = "ok"

\* a batch item whose dispatch succeeded and whose tap failed
C3_WitnessBatch ==
  /\ Batch /\ success_count = 1
  /\ \E k \in Taps : log[k].out = "nonzero" /\ log[k - 1].out = "ok"

\* C4: in scan mode a failed dispatch in attempt k ends the run: it is the
\* last device-bridge command (no tap), no attempt k+1 is started, no sleep
\* follows (the sleeps taken are the k-1 before attempt k), run returns False.
C4_ScanDispatchFailureEndsRun ==
  (mode = "scan" /\ FailedStarts # {}) =>
    /\ pc = "done" /\ result = "False"
    /\ FailedStarts = {Len(log)}
    /\ Taps = {}
    /\ attempt = log[Len(log)].n
    /\ sleeps = attempt - 1

\* a dispatch that failed with attempts still left
C4_Witness ==
  /\ mode = "scan" /\ FailedStarts # {} /\ attempt < max_attempts
  /\ log[Len(log)].out = "nonzero"

\* C5: in batch mode an item whose dispatch failed is not counted, and it
\* does not end the batch: a batch that ended without an operator abort
\* has gone through every input.
C5_BatchDispatchFailureSkipsItem ==
  Batch =>
    /\ success_count + Cardinality(FailedStarts) <= i
    /\ \A k \in FailedStarts : \A t \in Taps : log[t].n # log[k].n
    /\ (pc \in {"done", "raised"} /\ abort = "no" /\ i >= 1) => i = Len(urls)
    /\ (pc = "next" /\ abort = "no") => i <= Len(urls)

\* the second item is under way after the first one's dispatch failed
C5_Witness ==
  /\ Batch /\ i = 2 /\ success_count = 0
  /\ \E k \in FailedStarts : log[k].n = 1

C5_WitnessFile ==
  /\ mode = "file" /\ i = 2 /\ success_count = 1 /\ pc = "done" /\ summary
  /\ \E k \in FailedStarts : log[k].n = 1

\* C6: in scan mode every soft failure (no code, unrecognised text, error
\* in capture or decode) of attempt k is followed by one sleep and attempt
\* k+1 when k < max_attempts, and by no sleep and the return of False when
\* k = max_attempts; a run with no dispatch makes exactly max_attempts
\* attempts and returns False.
C6_SoftFailureRetries ==
  mode = "scan" =>
    /\ pc = "retry" => (Len(soft) = attempt /\ sleeps = attempt - 1)
    /\ pc = "scan" =>
         /\ Len(soft) = attempt
         /\ sleeps = (IF attempt = 0 THEN 0
                      ELSE IF attempt < max_attempts THEN attempt ELSE attempt - 1)
    /\ pc \in {"dispatch", "tap"} => (Len(soft) = attempt - 1 /\ sleeps = attempt - 1)
    /\ (pc = "done" /\ ~NotConnected /\ Starts = {}) =>
         /\ attempt = max_attempts
         /\ Len(soft) = max_attempts
         /\ result = "False"
         /\ sleeps = (IF max_attempts = 0 THEN 0 ELSE max_attempts - 1)

\* a run all of whose attempts decoded an unrecognised text
C6_Witness ==
  /\ mode = "scan" /\ pc = "done" /\ max_attempts >= 2
  /\ Len(soft) = max_attempts
  /\ \A k \in 1..Len(soft) : soft[k] = "unrecognized"
  /\ Classify(url) = "Unrecognized"

\* the text the attempt or item of log entry k worked on
PayloadOf(k) == IF mode = "scan" THEN url ELSE urls[log[k].n]
\* the text starts with xhsdiscover://, letters compared without case
StartsWithAppScheme(u) ==
  /\ Len(u) >= Len(AppScheme)
  /\ \A k \in 1..Len(AppScheme) : Lower(u[k]) = AppScheme[k]
\* uri is the deep link of the IdLen characters after some /explore/ of u
IsDeepLinkOf(uri, u) ==
  \E p \in 1..Len(u) :
    /\ OccursAt(u, p, ExploreSeg)
    /\ p + Len(ExploreSeg) + IdLen - 1 <= Len(u)
    /\ uri = ItemPrefix \o SubSeq(u, p + Len(ExploreSeg), p + Len(ExploreSeg) + IdLen - 1)
                        \o SourceTag

C8_WitnessNoId ==
  /\ Batch /\ i = 1 /\ urls[1] = WebUser /\ pc = "next" /\ Len(log) = 1

\* a web URL decoded in scan mode and dispatched as it is
C8_WitnessScan ==
  /\ mode = "scan" /\ url = WebExample
  /\ \E k \in Starts : log[k].uri = WebExample

\* the token that follows the first /explore/ of u: the characters up to
\* the next delimiter of a URL, or to the end
Delimiters == {"/", "?", "#", "&"}
HasSegment(u) == \E p \in 1..Len(u) : OccursAt(u, p, ExploreSeg)
TokenStart(u) ==
  Len(ExploreSeg) +
  (CHOOSE p \in 1..Len(u) :
     /\ OccursAt(u, p, ExploreSeg)
     /\ \A q \in 1..(p - 1) : ~OccursAt(u, q, ExploreSeg))
TokenEnd(u) ==
  CHOOSE e \in TokenStart(u)..(Len(u) + 1) :
    /\ e = Len(u) + 1 \/ u[e] \in Delimiters
    /\ \A q \in TokenStart(u)..(e - 1) : u[q] \notin Delimiters
TokenOf(u) == SubSeq(u, TokenStart(u), TokenEnd(u) - 1)
IsStrictId(t) == Len(t) = IdLen /\ \A k \in 1..Len(t) : IsIdChar(t[k])

\* C9: extraction fails for every text that has no /explore/ segment or
\* whose token after /explore/ is not exactly IdLen lower-case hex
\* characters; a longer token is rejected, not cut to its first IdLen.
C9_StrictTokenOnly ==
  (mode = "extract" /\ pc # "extract") =>
    ((~HasSegment(url) \/ ~IsStrictId(TokenOf(url))) => item_id = None)

\* what the pattern does reject: no segment, or one of the first IdLen
\* characters after it is not a lower-case hex digit (or is missing)
C9_PrefixOnly ==
  (mode = "extract" /\ pc # "extract") =>
    /\ ~HasSegment(url) => item_id = None
    /\ (HasSegment(url) /\ item_id # None) =>
         /\ Len(TokenOf(url)) >= IdLen
         /\ item_id = SubSeq(TokenOf(url), 1, IdLen)
    /\ (HasSegment(url) /\ IsStrictId(TokenOf(url))) => item_id = TokenOf(url)

\* C10: a missing device-bridge executable on any call is fatal: it is not
\* retried and no device-bridge command is issued after it in that run.
C10_BridgeMissingIsFatal ==
  \A k \in 1..Len(log) : log[k].out = "not_found" => k = Len(log)

TimedOutStarts == {k \in Starts : log[k].out = "timeout"}

\* C11 as stated: a start-activity that timed out is a soft failure, so a
\* scan run that ended right after one had no attempt left.
C11_Original ==
  (mode = "scan" /\ pc = "done" /\ TimedOutStarts # {}) => attempt = max_attempts

\* C11 amended: a start-activity that timed out is a failed dispatch of its
\* attempt: the call returns, no tap follows and the attempt is not a
\* success; in scan mode it ends the run with False like every other failed
\* dispatch (no next attempt, also with attempts left), in batch mode it
\* ends that item uncounted.
C11_TimeoutIsFailedDispatch ==
  \A k \in TimedOutStarts :
    /\ \A t \in Taps : log[t].n # log[k].n
    /\ mode = "scan" =>
         /\ pc = "done" /\ result = "False"
         /\ k = Len(log) /\ attempt = log[k].n
    /\ Batch =>
         /\ pc # "tap" \/ i > log[k].n
         /\ success_count <= i - Cardinality(TimedOutStarts)

\* a scan whose first dispatch timed out with attempts left
C11_Witness ==
  /\ mode = "scan" /\ pc = "done" /\ attempt = 1 /\ max_attempts >= 2
  /\ TimedOutStarts = {Len(log)}

\* a batch that went on to its second item after the first one timed out
C11_WitnessBatch ==
  /\ Batch /\ i = 2 /\ \E k \in TimedOutStarts : log[k].n = 1

\* C12: no error leaves the running function: every error during one
\* attempt or item, an end of input at a prompt included, is absorbed, and
\* a batch the operator did not stop goes through all its inputs and prints
\* its summary.
C12_NoErrorEscapes ==
  /\ pc # "raised"
  /\ (Batch /\ pc = "done" /\ i >= 1 /\ abort \notin {"q", "interrupt"}) =>
       (i = Len(urls) /\ summary)
  /\ (mode = "scan" /\ pc = "done" /\ ~NotConnected /\ Starts = {}) =>
       Len(soft) = max_attempts

\* C13: within one attempt or item the start-activity command is issued at
\* most once, whatever its outcome: no two start entries of the log belong
\* to the same attempt.
C13_OneStartPerAttempt ==
  \A k \in Starts : \A m \in Starts : log[k].n = log[m].n => k = m

\* two items dispatched, the first one's start having failed
C13_Witness ==
  /\ Batch /\ Cardinality(Starts) = 2
  /\ \E k \in FailedStarts : log[k].n = 1

\* C14: a tap is issued only right after a start-activity of the same
\* attempt that returned success, and at most once per attempt; an attempt
\* whose dispatch failed or timed out, or that failed softly, has no tap.
C14_TapOnlyAfterSuccessfulStart ==
  /\ \A t \in Taps :
       /\ t > 1
       /\ log[t - 1].cmd = "start" /\ log[t - 1].out = "ok"
       /\ log[t - 1].n = log[t].n
  /\ \A t \in Taps : \A u \in Taps : log[t].n = log[u].n => t = u
  /\ \A k \in FailedStarts : \A t \in Taps : log[t].n # log[k].n
  /\ mode = "scan" => Cardinality(Taps) + Len(soft) <= attempt

\* a failed dispatch of the first item, then the second item dispatched
\* and tapped
C14_Witness ==
  /\ Batch /\ Cardinality(Taps) = 1
  /\ \E k \in FailedStarts : log[k].n = 1
  /\ \E t \in Taps : log[t].n = 2

Checks == {k \in 1..Len(log) : log[k].cmd = "devices"}
Ended == pc \in {"done", "raised"}

\* C15 as stated: every run performs the connectivity check exactly once,
\* before anything else.
C15_Original ==
  /\ Cardinality(Checks) <= 1
  /\ log # <<>> => Checks = {1}
  /\ Ended => Checks = {1}

\* C15 amended: the connectivity check is performed at most once per run,
\* before any attempt or item and before any other device-bridge command,
\* and is never repeated between attempts or items; it is performed exactly
\* once in every scan run, every interactive run and every file run whose
\* file holds a link (a file run with a missing or empty file ends before
\* the check).
C15_CheckOnceBeforeAttempts ==
  /\ Cardinality(Checks) <= 1
  /\ (log # <<>> \/ attempt > 0 \/ i > 0 \/ extracted # <<>> \/ soft # <<>>) =>
       Checks = {1}
  /\ (attempt > 0 \/ i > 0) => (Checks = {1} /\ log[1].out = "devices")
  /\ (Ended /\ mode \in {"scan", "input"}) => Checks = {1}
  /\ (Ended /\ mode = "file") => (Checks = {1} <=> urls # <<>>)

\* a scan in its third attempt, with the one check at the start of the log
C15_Witness ==
  /\ mode = "scan" /\ attempt = 3 /\ Len(soft) = 2 /\ sleeps = 2
  /\ Checks = {1}

\* a file batch past its second item, still with one check
C15_WitnessFile == mode = "file" /\ i = 2 /\ Len(log) >= 3 /\ Checks = {1}

\* C16: a batch takes its inputs in the order supplied, each one once: the
\* texts processed so far are the first i inputs, the device-bridge
\* commands appear in item order, an item is started only when the one
\* before it has reached its outcome, and a batch that was not aborted
\* has processed every input exactly once.
C16_InOrderOnce ==
  Batch =>
    /\ i <= Len(urls)
    /\ extracted = SubSeq(urls, 1, i)
    /\ \A k \in 1..Len(log) : \A m \in 1..Len(log) :
         k < m => log[k].n <= log[m].n
    /\ \A k \in 1..Len(log) : log[k].n <= i
    /\ (pc = "item" /\ i >= 1) =>
         \A k \in Starts : log[k].out = "ok" => \E t \in Taps : log[t].n = log[k].n
    /\ (Ended /\ abort = "no" /\ i >= 1) => (i = Len(urls) /\ Len(extracted) = Len(urls))

\* a finished batch of two different inputs, the first one failed
C16_Witness ==
  /\ Batch /\ pc = "done" /\ summary /\ i = 2 /\ urls[1] # urls[2]
  /\ extract_id_from_url(urls[1]) = None

\* C17: in interactive mode a q or a Ctrl-C at the continue prompt after
\* item i ends the batch cleanly: the summary is printed, no item after i
\* is processed and no device-bridge command follows; a Ctrl-C while the
\* lines are being collected ends the run with no item processed and no
\* dispatch.
C17_OperatorAbortIsClean ==
  (mode = "input" /\ abort \in {"q", "interrupt"}) =>
    /\ pc = "done" /\ result = "None"
    /\ i >= 1 =>
         /\ summary
         /\ i < Len(urls)
         /\ Len(extracted) = i
         /\ \A k \in 1..Len(log) : log[k].n <= i
         /\ log[Len(log)].cmd # "start" \/ log[Len(log)].out # "ok"
    /\ i = 0 =>
         /\ abort = "interrupt"
         /\ ~summary
         /\ Len(log) = 1 /\ extracted = <<>>

\* q answered after the first of two items
C17_Witness ==
  /\ mode = "input" /\ abort = "q" /\ i = 1 /\ Len(urls) = 2
  /\ summary /\ Starts # {}

\* Ctrl-C at the continue prompt, and Ctrl-C with a line already typed
C17_WitnessInterrupt == mode = "input" /\ abort = "interrupt" /\ i = 1 /\ summary
C17_WitnessCollect == mode = "input" /\ abort = "interrupt" /\ i = 0 /\ urls # <<>>

\* C18: when every external call returns and the operator answers every
\* prompt, every run ends: a scan run with True or False, for every
\* max_attempts, and a batch run over its finite list of inputs.
C18_Terminates ==
  <>(Ended /\ (mode = "scan" => result \in {"True", "False"}))

\* a scan that has returned after using several attempts
C18_Witness ==
  /\ mode = "scan" /\ Ended /\ attempt >= 2
  /\ result \in {"True", "False"}

C18_WitnessBatch == Batch /\ Ended /\ i = 2

\* C19: a scan run issues at most one start-activity command, and it
\* returns True exactly when that command was issued and returned success;
\* a run with no device, with its attempts used up or with a failed
\* dispatch returns False.
C19_ScanResult ==
  mode = "scan" =>
    /\ Cardinality(Starts) <= 1
    /\ result \in {"pending", "True", "False"}
    /\ pc = "done" <=> result # "pending"
    /\ result = "True" => \E k \in Starts : log[k].out = "ok"
    /\ (pc = "done" /\ \E k \in Starts : log[k].out = "ok") => result = "True"

\* True returned in a later attempt, after soft failures
C19_Witness ==
  /\ mode = "scan" /\ result = "True" /\ Len(soft) >= 1
  /\ Cardinality(Starts) = 1

C19_WitnessFalse ==
  /\ mode = "scan" /\ result = "False" /\ FailedStarts # {}

\* items whose start-activity returned success
OkItems == {n \in 1..i : \E k \in Starts : log[k].n = n /\ log[k].out = "ok"}

\* C20: in a batch success_count never exceeds the number of inputs
\* processed so far, which never exceeds the number supplied; it counts
\* each input at most once, and between items and in the final summary it
\* is the number of processed inputs whose dispatch succeeded, whatever
\* their taps did and however many inputs an abort left out.
C20_SuccessCount ==
  Batch =>
    /\ success_count <= i
    /\ i <= Len(urls)
    /\ success_count = Cardinality(OkItems) - (IF pc = "tap" THEN 1 ELSE 0)
    /\ summary => success_count = Cardinality(OkItems)

\* a summary after an abort: one item counted although its tap failed
C20_Witness ==
  /\ Batch /\ summary /\ abort = "q" /\ success_count = 1
  /\ \E t \in Taps : log[t].out # "ok"

C20_WitnessFull ==
  /\ mode = "file" /\ summary /\ i = 2 /\ success_count = 1
  /\ Cardinality(Starts) = 2

====
